---- MODULE Spec2Model ----
(***************************************************************************)
(* Model of webpack-subresource-integrity (src/index.js): the local-vars   *)
(* instrumenter, the optimize-assets integrity resolver with its asset     *)
(* sweep, and the html-webpack-plugin tag injector.                        *)
(*                                                                         *)
(* Text is modelled as a sequence of atoms.  An atom is a record           *)
(* [k, id, text, body]: a literal piece of text, a number, or the base64   *)
(* digest of a whole text (body) under an algorithm (text).  Concatenation *)
(* of strings is \o, so indexOf, replace and join act on real positions.   *)
(* Positions are 0-based as in JavaScript.                                 *)
(***************************************************************************)
EXTENDS Integers, Sequences, FiniteSets, TLC

\* Call-stack frames available before the engine raises RangeError.
MaxStack == 6
\* Largest number of times the markers are repeated in an initial source.
MaxOcc == 2
\* Largest number of tags in the head section and in the body section.
MaxTags == 2
\* Largest number of compilations one compiler makes (a build and rebuilds).
MaxBuilds == 3
\* Longest array of algorithms handed to the constructor.
MaxAlgos == 2

(***************************************************************************)
(* Strings                                                                 *)
(***************************************************************************)
Lit(s) == [k |-> "lit", id |-> 0, text |-> s, body |-> <<>>]
Num(n) == [k |-> "num", id |-> n, text |-> "", body |-> <<>>]
Digest(algo, source) == [k |-> "digest", id |-> 0, text |-> algo, body |-> source]

Min(S) == CHOOSE x \in S : \A y \in S : x <= y
Max(S) == CHOOSE x \in S : \A y \in S : x >= y

\* Array.prototype.includes
Includes(arr, x) == \E i \in 1..Len(arr) : arr[i] = x

RECURSIVE Join(_, _)
\* Array.prototype.join: the elements separated by sep
Join(arr, sep) ==
  IF arr = <<>> THEN <<>>
  ELSE IF Len(arr) = 1 THEN arr[1]
  ELSE arr[1] \o sep \o Join(Tail(arr), sep)

\* String.prototype.indexOf: 0-based position of the first occurrence, or -1
IndexOf(s, sub) ==
  LET cand == {i \in 0..(Len(s) - Len(sub)) : SubSeq(s, i + 1, i + Len(sub)) = sub}
  IN IF cand = {} THEN -1 ELSE Min(cand)

\* '*-*-*-CHUNK-SRI-HASH-' + id + '-*-*-*'
makePlaceholder(id) ==
  <<Lit("*-*-*-CHUNK-SRI-HASH-"), Num(id), Lit("-*-*-*")>>

(***************************************************************************)
(* ReplaceSource (webpack-core), as index.js uses it: replace(start, end,  *)
(* value) records a replacement of the inclusive range [start, end] of the *)
(* original text; source() applies the recorded replacements from the      *)
(* highest end downwards, each to the text left of the previous one.  A    *)
(* value of undefined joins as the empty string.                           *)
(***************************************************************************)
\* String.prototype.substr bounds: a cut at pos within a text of length len
Clamp(pos, len) == IF pos <= 0 THEN 0 ELSE IF pos > len THEN len ELSE pos

\* ReplaceSource._sortReplacements: by end descending; replacements with the
\* same end in the reverse of the order their replace() calls were made
SortedReplacements(repls) ==
  SortSeq([i \in 1..Len(repls) |-> [repls[i] EXCEPT !.ord = i]],
          LAMBDA a, b : \/ a.end > b.end
                        \/ a.end = b.end /\ a.ord > b.ord)

RECURSIVE ReplaceFrom(_, _, _, _)
\* ReplaceSource._replaceString from the j-th sorted replacement on, with the
\* first len elements of str still to be treated
ReplaceFrom(str, sorted, j, len) ==
  IF j > Len(sorted) THEN SubSeq(str, 1, len)
  ELSE ReplaceFrom(str, sorted, j + 1,
                   Clamp(sorted[j].start, Clamp(sorted[j].end + 1, len)))
       \o sorted[j].value
       \o SubSeq(str, Clamp(sorted[j].end + 1, len) + 1, len)

\* ReplaceSource.source()
ReplaceString(str, repls) ==
  ReplaceFrom(str, SortedReplacements(repls), 1, Len(str))

(***************************************************************************)
(* Artifact graphs.  compilation.chunks is a sequence; a chunk's id is its *)
(* position; chunk.chunks holds the ids of its children in order.  A chunk *)
(* of webpack 1 has no hasRuntime member; hasRuntime names what the method *)
(* of a later chunk returns.                                               *)
(***************************************************************************)
Chunk(children, files, entry) ==
  [chunks |-> children, files |-> files, entry |-> entry, hasRuntime |-> "absent"]

\* a chunk with a hasRuntime() method returning runtime
RuntimeChunk(children, files, entry, runtime) ==
  [chunks |-> children, files |-> files, entry |-> entry,
   hasRuntime |-> IF runtime THEN "true" ELSE "false"]

Chain ==
  << Chunk(<<2>>, <<"c1.js">>, TRUE),
     Chunk(<<3>>, <<"c2.js">>, FALSE),
     Chunk(<<>>, <<"c3.js">>, FALSE) >>

Diamond ==
  << Chunk(<<2, 3>>, <<"c1.js">>, TRUE),
     Chunk(<<4>>, <<"c2.js">>, FALSE),
     Chunk(<<4>>, <<"c3.js">>, FALSE),
     Chunk(<<>>, <<"c4.js">>, FALSE) >>

\* 1 -> 2 -> 1 and the self-loop 2 -> 2
Cyclic ==
  << Chunk(<<2>>, <<"c1.js">>, TRUE),
     Chunk(<<1, 2>>, <<"c2.js">>, FALSE) >>

\* two roots sharing the descendant 3, and a root without children
SharedRoots ==
  << Chunk(<<3>>, <<"c1.js">>, TRUE),
     Chunk(<<3>>, <<"c2.js">>, TRUE),
     Chunk(<<>>, <<"c3.js">>, FALSE),
     Chunk(<<>>, <<"c4.js">>, TRUE) >>

\* a second output file, a child without output files, an unreachable chunk
Mixed ==
  << Chunk(<<2>>, <<"c1.js", "c1.css">>, TRUE),
     Chunk(<<3>>, <<>>, FALSE),
     Chunk(<<>>, <<"c3.js">>, FALSE),
     Chunk(<<>>, <<"c4.js">>, FALSE) >>

\* chunks with hasRuntime(): 1 holds the runtime though its entry is false,
\* its child 2 does not though its entry is true
Runtime ==
  << RuntimeChunk(<<2>>, <<"c1.js">>, FALSE, TRUE),
     RuntimeChunk(<<>>, <<"c2.js">>, TRUE, FALSE) >>

Graphs == {Chain, Diamond, Cyclic, SharedRoots, Mixed, Runtime}

\* an asset no chunk owns
StaticFile == "static.txt"

ChunkIds(g) == 1..Len(g)
FilesOf(g) ==
  UNION {{g[c].files[i] : i \in 1..Len(g[c].files)} : c \in ChunkIds(g)}
FirstFiles(g) == {g[c].files[1] : c \in {d \in ChunkIds(g) : Len(g[d].files) > 0}}

RECURSIVE Markers(_, _)
\* the markers of the ids 1..n, one after the other
Markers(n, g) ==
  IF n = 0 THEN <<>> ELSE Markers(n - 1, g) \o makePlaceholder(n)

RECURSIVE Repeat(_, _)
Repeat(s, n) == IF n = 0 THEN <<>> ELSE s \o Repeat(s, n - 1)

\* the text of file f before the build instruments it: its own code, then
\* n copies of the markers of every chunk id of the graph
InitialSource(f, g, n) == <<Lit(f)>> \o Repeat(Markers(Len(g), g), n)

Asset(source, integrity) == [source |-> source, integrity |-> integrity]

\* the asset maps of graph g: the output files of the chunks carry 0..occ
\* copies of the markers, the other files their own code only; no asset is
\* annotated
AssetMaps(g, occ) ==
  LET files == FilesOf(g) \cup {StaticFile}
  IN { [f \in files |-> Asset(InitialSource(f, g, n[f]), <<>>)] :
         n \in { m \in [files -> 0..occ] :
                   \A f \in files : f \notin FilesOf(g) => m[f] = 0 } }

\* asset maps from which an earlier optimize-assets handler has deleted one
\* of the chunks' files
PrunedAssetMaps(g) ==
  { [f \in (FilesOf(g) \cup {StaticFile}) \ {gone} |->
       Asset(InitialSource(f, g, 0), <<>>)] : gone \in FilesOf(g) }

Range(f) == {f[i] : i \in DOMAIN f}

RECURSIVE ReachFrom(_, _, _)
\* the ids met from the ids of frontier through child edges, seen included
ReachFrom(g, frontier, seen) ==
  LET next == UNION {Range(g[c].chunks) : c \in frontier} \ seen
  IN IF next = {} THEN seen ELSE ReachFrom(g, next, seen \cup next)

\* the ids reachable from a through one or more child edges
Reach(g, a) == ReachFrom(g, {a}, {})

RECURSIVE MarkersOf(_, _)
\* the markers of the ids of S among 1..n, in ascending order
MarkersOf(n, S) ==
  IF n = 0 THEN <<>>
  ELSE MarkersOf(n - 1, S) \o (IF n \in S THEN makePlaceholder(n) ELSE <<>>)

\* the asset maps of graph g in which the first file of a chunk holds the
\* markers of some of the chunk's descendants, each once
PartialAssetMaps(g) ==
  LET files == FilesOf(g) \cup {StaticFile}
      owner(f) == {c \in ChunkIds(g) : Len(g[c].files) > 0 /\ g[c].files[1] = f}
      allowed(f) == UNION {Reach(g, c) : c \in owner(f)}
      pairs == UNION {{<<f, d>> : d \in allowed(f)} : f \in files}
  IN { [f \in files |->
          Asset(<<Lit(f)>> \o MarkersOf(Len(g), {d \in ChunkIds(g) : <<f, d>> \in P}),
                <<>>)] :
         P \in SUBSET pairs }

(***************************************************************************)
(* Tags of the markup phase.  A reference or a path is a sequence of       *)
(* one-character strings, except that a file or directory name is one      *)
(* element; an absent attribute and the empty string are the empty         *)
(* sequence.                                                               *)
(***************************************************************************)
Alnum == {"v", "1", "2", "3", "a", "b"}
\* the public path '/cdn/'
PublicPrefix == <<"/", "cdn", "/">>

Tag(name, href, src) ==
  [tagName |-> name,
   attributes |-> [href |-> href, src |-> src,
                   integrity |-> <<>>, crossorigin |-> "undefined"]]

\* the tags html-webpack-plugin may hand over under public path pp
Tags(pp) ==
  { Tag("script", <<>>, pp \o <<"c1.js">>),
    Tag("script", <<>>, pp \o <<"c1.js", "?", "a", "1">>),
    Tag("script", <<>>, pp \o <<"c1.js", "?", "v", "=", "1", "2", "3">>),
    Tag("script", <<>>, pp \o <<"missing.js">>),
    Tag("link", <<"static.txt">>, <<>>),
    Tag("link", pp \o <<"c1.js">>, pp \o <<"missing.js">>),
    Tag("meta", <<>>, pp \o <<"c1.js">>),
    Tag("script", <<>>, PublicPrefix \o <<"c1.js">>),
    Tag("script", <<>>, <<>>) }

SeqsUpTo(S, n) == UNION { [1..m -> S] : m \in 0..n }

\* pluginArgs with at most n tags in head and body together
TagInputs(pp, n) ==
  UNION { { [head |-> h, body |-> b] : b \in SeqsUpTo(Tags(pp), n - Len(h)) } :
          h \in SeqsUpTo(Tags(pp), n) }

\* one resolvable tag in the head and one unresolvable tag in the body
BasicTagInputs(pp) ==
  { [head |-> <<Tag("script", <<>>, pp \o <<"c1.js">>)>>,
     body |-> <<Tag("script", <<>>, pp \o <<"missing.js">>)>>] }

(***************************************************************************)
(* Constructor arguments: a string, an array of strings, or a value of     *)
(* another type.                                                           *)
(***************************************************************************)
\* the names crypto.createHash knows
KnownAlgos == {"sha256", "sha384"}

\* the names handed to the constructor, which takes any string: the known
\* ones and one crypto.createHash rejects
AlgoNames == KnownAlgos \cup {"sha999"}

Arg(type, str, arr) == [type |-> type, str |-> str, arr |-> arr]

Args ==
  {Arg("string", a, <<>>) : a \in AlgoNames}
  \cup {Arg("array", "", arr) : arr \in SeqsUpTo(AlgoNames, MaxAlgos)}
  \cup {Arg(t, "", <<>>) : t \in {"undefined", "null", "number", "object"}}

\* process.cwd(), compiler.options.output.path and the filename option of
\* html-webpack-plugin
Env(dir, out, file) == [cwd |-> dir, outputPath |-> out, filename |-> file]

\* the builds run in '/' and write to '/out/index.html'
RootEnv == Env(<<"/">>, <<"/", "out">>, <<"index.html">>)

\* the working directory is '/' or '/srv/app', the html file 'index.html' or
\* 'sub/index.html'
Envs ==
  { RootEnv,
    Env(<<"/", "srv", "/", "app">>, <<"/", "out">>, <<"index.html">>),
    Env(<<"/", "srv", "/", "app">>, <<"/", "out">>, <<"sub", "/", "index.html">>) }

VARIABLES
  chunks,            \* compilation.chunks
  arg,               \* the argument of new SubresourceIntegrityPlugin(...)
  algorithms,        \* this.algorithms
  error,             \* the message of the Error the constructor threw, or ""
  publicPath,        \* compiler.options.output.publicPath ('' when unset)
  cwd,               \* process.cwd()
  outputPath,        \* compiler.options.output.path
  filename,          \* pluginArgs.plugin.options.filename
  handlers,          \* thisCompilationPlugin handlers registered on the compiler
  applied,           \* WebIntegrityJsonpMainTemplatePlugin instances applied
                     \* to this compilation's main template
  builds,            \* compilations the compiler has created
  generated,         \* the text the compilation generates for each file
  assets,            \* compilation.assets
  pc,                \* the phase of the build
  ri,                \* next chunk the main template renders
  hi,                \* next handler of the hook being run for that chunk
  fstack,            \* call stack of findDepChunks
  allDepChunkIds,    \* localVarsPlugin's allDepChunkIds
  ci,                \* next chunk of compilation.chunks.forEach
  stack,             \* call stack of processChunkRecursive
  visitedByChunkId,
  hashByChunkId,
  head, body,        \* pluginArgs.head, pluginArgs.body
  ti,                \* next tag of the head.forEach / body.forEach pair
  warnings,          \* compilation.warnings
  oldSources,        \* history: each asset's text when optimize-assets starts
  hashWrites,        \* history: writes of hashByChunkId[id]
  entered,           \* history: entries of processChunkRecursive past line 101
  splices,           \* history: the replace() calls of line 118
  callbacks,         \* history: calls of optimize-assets' callback
  runs,              \* history: input and result of each finished pass
  htmlCallbacks      \* history: the arguments of each html callback call

env == <<cwd, outputPath, filename>>
inputs == <<chunks, arg, algorithms, error, publicPath, handlers, applied,
            builds, generated, env>>
renderVars == <<ri, hi, fstack, allDepChunkIds>>
optVars == <<ci, stack, visitedByChunkId, hashByChunkId>>
tagVars == <<head, body, ti, warnings, htmlCallbacks>>
histVars == <<oldSources, hashWrites, entered, splices, callbacks, runs>>
vars == <<inputs, assets, pc, renderVars, optVars, tagVars, histVars>>

N == Len(chunks)

\* the main template of this compilation carries the plugin's hooks
instrumented == applied > 0

(***************************************************************************)
(* Pure parts of the handlers                                              *)
(***************************************************************************)
\* faulty variant: the entries are joined in the reverse of the configured order
computeIntegrity_Reversed(source) ==
  Join([i \in 1..Len(algorithms) |->
          <<Lit(algorithms[Len(algorithms) + 1 - i]), Lit("-"),
            Digest(algorithms[Len(algorithms) + 1 - i], source)>>],
       <<Lit(" ")>>)

\* line 75: crypto.createHash(algo) throws for one of the configured names,
\* and computeIntegrity with it
createHashThrows == \E i \in 1..Len(algorithms) : algorithms[i] \notin KnownAlgos

\* computeIntegrity (lines 73-78): algo + '-' + base64 digest, joined by ' ',
\* where createHash knows every name
computeIntegrity(source) ==
  Join([i \in 1..Len(algorithms) |->
          <<Lit(algorithms[i]), Lit("-"), Digest(algorithms[i], source)>>],
       <<Lit(" ")>>)

\* the white space String.prototype.trimRight removes
WhiteSpace == {Lit("\n"), Lit("\t"), Lit(" ")}

RECURSIVE trimRight(_)
\* String.prototype.trimRight
trimRight(str) ==
  IF str /= <<>> /\ str[Len(str)] \in WhiteSpace
  THEN trimRight(SubSeq(str, 1, Len(str) - 1))
  ELSE str

\* Template.indent of a string: trailing white space is dropped; an empty rest
\* stays empty; otherwise a tab goes before the text unless it starts with a
\* line break, and after every line break that another character than a line
\* break follows
indent(str) ==
  LET t == trimRight(str)
  IN IF t = <<>> THEN <<>>
     ELSE (IF t[1] = Lit("\n") THEN <<>> ELSE <<Lit("\t")>>) \o
          Join([i \in 1..Len(t) |->
                  IF t[i] = Lit("\n") /\ i < Len(t) /\ t[i + 1] /= Lit("\n")
                  THEN <<t[i], Lit("\t")>>
                  ELSE <<t[i]>>], <<>>)

\* Template.asString: the lines joined by line breaks
asString(lines) == Join(lines, <<Lit("\n")>>)

\* lines 42-51: the source followed by the sriHashes mapping of ids
localVarsSource(source, ids) ==
  asString(<< source,
              <<Lit("var sriHashes = {")>>,
              indent(Join([i \in 1..Len(ids) |->
                             <<Num(ids[i]), Lit(":\"")>> \o makePlaceholder(ids[i])
                               \o <<Lit("\"")>>],
                          <<Lit(","), Lit("\n")>>)),
              <<Lit("};")>> >>)

\* lines 25-28: the jsonp-script code followed by the integrity assignment
jsonpScriptSource(source) ==
  asString(<< source, <<Lit("script.integrity = sriHashes[chunkId];")>> >>)

\* faulty variant: the test of line 117 is missing
replacements_NoSkip(oldSource, depChunkIds, hashes) ==
  [i \in 1..Len(depChunkIds) |->
     [start |-> IndexOf(oldSource, makePlaceholder(depChunkIds[i])),
      end |-> IndexOf(oldSource, makePlaceholder(depChunkIds[i]))
                + Len(makePlaceholder(depChunkIds[i])) - 1,
      value |-> IF depChunkIds[i] \in DOMAIN hashes THEN hashes[depChunkIds[i]] ELSE <<>>,
      ord |-> i]]

\* lines 114-123: the replace() calls made for depChunkIds on oldSource, in
\* the order they are made
replacements(oldSource, depChunkIds, hashes) ==
  LET found == SelectSeq(depChunkIds,
                 LAMBDA d : IndexOf(oldSource, makePlaceholder(d)) >= 0)
  IN [i \in 1..Len(found) |->
        [start |-> IndexOf(oldSource, makePlaceholder(found[i])),
         end |-> IndexOf(oldSource, makePlaceholder(found[i]))
                   + Len(makePlaceholder(found[i])) - 1,
         value |-> IF found[i] \in DOMAIN hashes THEN hashes[found[i]] ELSE <<>>,
         ord |-> i]]

\* lines 111-127: newAsset.source() after the replace() calls
newSourceOf(oldSource, depChunkIds, hashes) ==
  ReplaceString(oldSource, replacements(oldSource, depChunkIds, hashes))

\* faulty variant: the integrity is computed from the text before the replacements
newAssetIntegrity_OfOld(oldSource, newSource) == computeIntegrity(oldSource)

\* lines 127-128: the integrity of the patched asset
newAssetIntegrity(oldSource, newSource) == computeIntegrity(newSource)

\* faulty variant: the test of line 143 is inverted
sweptAsset_Inverted(asset) ==
  IF asset.integrity /= <<>>
  THEN Asset(asset.source, computeIntegrity(asset.source))
  ELSE asset

\* lines 142-145: an asset after the sweep has looked at it
sweptAsset(asset) ==
  IF asset.integrity = <<>>
  THEN Asset(asset.source, computeIntegrity(asset.source))
  ELSE asset

\* faulty variant: the last output file is taken for the first
chunkFileOf_Last(chunk) == chunk.files[Len(chunk.files)]

\* line 109: var chunkFile = chunk.files[0]
chunkFileOf(chunk) == chunk.files[1]

\* line 135: ('hasRuntime' in chunk) ? chunk.hasRuntime() : chunk.entry
holdsRuntime(chunk) ==
  IF chunk.hasRuntime /= "absent" THEN chunk.hasRuntime = "true" ELSE chunk.entry

\* line 135: the chunk is a root of the traversal; the chunks that pass this
\* test are also the ones webpack renders with the main template
isRoot(c) == holdsRuntime(chunks[c])

(***************************************************************************)
(* Initial states: the compilation has built its chunks and assets.        *)
(***************************************************************************)
\* what holds at the start of every behaviour: the graph, the generated
\* files and the tags are chosen, nothing has run
InitCompilation(graphs, maps, paths, envs, tagInputs) ==
  /\ chunks \in graphs
  /\ publicPath \in paths
  /\ \E e \in envs :
       /\ cwd = e.cwd
       /\ outputPath = e.outputPath
       /\ filename = e.filename
  /\ assets \in maps[chunks]
  /\ generated = [f \in DOMAIN assets |-> assets[f].source]
  /\ \E pluginArgs \in tagInputs[publicPath] :
       /\ head = pluginArgs.head
       /\ body = pluginArgs.body
  /\ ri = 1
  /\ hi = 1
  /\ fstack = <<>>
  /\ allDepChunkIds = <<>>
  /\ ci = 1
  /\ stack = <<>>
  /\ visitedByChunkId = {}
  /\ hashByChunkId = <<>>
  /\ ti = 1
  /\ warnings = <<>>
  /\ htmlCallbacks = <<>>
  /\ oldSources = [f \in DOMAIN assets |-> assets[f].source]
  /\ hashWrites = [c \in ChunkIds(chunks) |-> 0]
  /\ entered = [c \in ChunkIds(chunks) |-> 0]
  /\ splices = {}
  /\ callbacks = 0
  /\ runs = <<>>

\* the first compilation of a compiler (its main template does not carry the
\* plugin) or its second (it carries the plugin once) is about to render
InitWith(graphs, maps, paths, envs, algos, tagInputs) ==
  /\ InitCompilation(graphs, maps, paths, envs, tagInputs)
  /\ algorithms \in algos
  /\ arg = Arg("array", "", algorithms)
  /\ error = ""
  /\ applied \in {0, 1}
  /\ handlers = applied + 1
  /\ builds = applied + 1
  /\ pc = "render"

\* every graph and asset map, one pair of tags
Init ==
  InitWith(Graphs, [g \in Graphs |-> AssetMaps(g, MaxOcc)], {<<>>}, {RootEnv},
           {<<"sha256">>},
           [pp \in {<<>>} |-> BasicTagInputs(pp)])

AllTagInputs(pp) == TagInputs(pp, MaxTags)

\* one graph, two algorithms, every public path; every tag input in '/', and
\* the tag inputs with a tag less in the other environments
InitTags ==
  \/ InitWith({SharedRoots}, [g \in {SharedRoots} |-> AssetMaps(g, 0)],
              {<<>>, PublicPrefix}, {RootEnv},
              {<<"sha256", "sha384">>},
              [pp \in {<<>>, PublicPrefix} |-> AllTagInputs(pp)])
  \/ InitWith({SharedRoots}, [g \in {SharedRoots} |-> AssetMaps(g, 0)],
              {<<>>, PublicPrefix}, Envs \ {RootEnv},
              {<<"sha256", "sha384">>},
              [pp \in {<<>>, PublicPrefix} |-> TagInputs(pp, MaxTags - 1)])

\* every graph; a first file holds the markers of any of its descendants
InitPartial ==
  InitWith(Graphs, [g \in Graphs |-> PartialAssetMaps(g)], {<<>>}, {RootEnv},
           {<<"sha256">>},
           [pp \in {<<>>} |-> BasicTagInputs(pp)])

\* the graphs of the builds in which a statement of the handler may throw
FaultGraphs == {Chain, Mixed, SharedRoots}

\* asset maps with and without every chunk file, algorithm lists with and
\* without a name createHash rejects
InitFaults ==
  InitWith(FaultGraphs,
           [g \in FaultGraphs |-> AssetMaps(g, 1) \cup PrunedAssetMaps(g)],
           {<<>>}, {RootEnv},
           {<<"sha256">>, <<"sha999">>, <<"sha256", "sha999">>},
           [pp \in {<<>>} |-> BasicTagInputs(pp)])

\* the graphs of the builds that start with the constructor
LifeGraphs == {Chain, SharedRoots}

\* nothing is constructed yet: every constructor argument
InitLife ==
  /\ InitCompilation(LifeGraphs, [g \in LifeGraphs |-> AssetMaps(g, 1)], {<<>>},
                     {RootEnv},
                     [pp \in {<<>>} |-> BasicTagInputs(pp)])
  /\ arg \in Args
  /\ algorithms = <<>>
  /\ error = ""
  /\ handlers = 0
  /\ applied = 0
  /\ builds = 0
  /\ pc = "new"

(***************************************************************************)
(* Code generation: the main template renders every entry chunk; with the  *)
(* plugin applied its local-vars hook runs localVarsPlugin (lines 37-54).  *)
(***************************************************************************)
\* a chunk the main template does not render, or renders without the plugin
RenderPlain ==
  /\ pc = "render" /\ ri <= N
  /\ ~(isRoot(ri) /\ instrumented)
  /\ ri' = ri + 1
  /\ UNCHANGED <<inputs, assets, pc, hi, fstack, allDepChunkIds, optVars, tagVars, histVars>>

\* line 53: a chunk without children keeps its source, whatever the number
\* of handlers its local-vars hook runs
localVarsNoChildren ==
  /\ pc = "render" /\ ri <= N
  /\ isRoot(ri) /\ instrumented
  /\ Len(chunks[ri].chunks) = 0
  /\ ri' = ri + 1
  /\ UNCHANGED <<inputs, assets, pc, hi, fstack, allDepChunkIds, optVars, tagVars, histVars>>

\* lines 38-40, for the hi-th localVarsPlugin of the local-vars hook:
\* allDepChunkIds = [], findDepChunks(chunk, allDepChunkIds)
localVarsCall ==
  /\ pc = "render" /\ ri <= N
  /\ isRoot(ri) /\ hi <= applied
  /\ Len(chunks[ri].chunks) > 0
  /\ allDepChunkIds' = <<>>
  /\ fstack' = <<[chunk |-> ri, i |-> 1]>>
  /\ pc' = "localVars"
  /\ UNCHANGED <<inputs, assets, ri, hi, optVars, tagVars, histVars>>

\* faulty variant: the test of line 11 is missing
findDepChunks_NoIncludes ==
  /\ pc = "localVars" /\ fstack /= <<>>
  /\ LET f == fstack[Len(fstack)]
         depChunk == chunks[f.chunk].chunks[f.i]
     IN /\ f.i <= Len(chunks[f.chunk].chunks)
        /\ allDepChunkIds' = Append(allDepChunkIds, depChunk)
        /\ IF Len(fstack) >= MaxStack
           THEN /\ pc' = "crashed"
                /\ fstack' = fstack
           ELSE /\ pc' = pc
                /\ fstack' = Append([fstack EXCEPT ![Len(fstack)].i = f.i + 1],
                                    [chunk |-> depChunk, i |-> 1])
  /\ UNCHANGED <<inputs, assets, ri, hi, optVars, tagVars, histVars>>

\* lines 10-14: one iteration of chunk.chunks.forEach in findDepChunks: the
\* child's id is pushed unless included, then findDepChunks is called on it.
\* Without a frame left for the call the engine raises RangeError (Maximum
\* call stack size exceeded) and the build fails.
findDepChunks ==
  /\ pc = "localVars" /\ fstack /= <<>>
  /\ LET f == fstack[Len(fstack)]
         depChunk == chunks[f.chunk].chunks[f.i]
     IN /\ f.i <= Len(chunks[f.chunk].chunks)
        /\ allDepChunkIds' = IF Includes(allDepChunkIds, depChunk)
                             THEN allDepChunkIds
                             ELSE Append(allDepChunkIds, depChunk)
        /\ IF Len(fstack) >= MaxStack
           THEN /\ pc' = "crashed"
                /\ fstack' = fstack
           ELSE /\ pc' = pc
                /\ fstack' = Append([fstack EXCEPT ![Len(fstack)].i = f.i + 1],
                                    [chunk |-> depChunk, i |-> 1])
  /\ UNCHANGED <<inputs, assets, ri, hi, optVars, tagVars, histVars>>

\* line 15: the forEach of a findDepChunks call is over; the call returns
findDepChunksReturn ==
  /\ pc = "localVars" /\ fstack /= <<>>
  /\ LET f == fstack[Len(fstack)]
     IN f.i > Len(chunks[f.chunk].chunks)
  /\ fstack' = SubSeq(fstack, 1, Len(fstack) - 1)
  /\ UNCHANGED <<inputs, assets, pc, ri, hi, allDepChunkIds, optVars, tagVars, histVars>>

\* lines 42-51: the mapping is appended to the chunk's rendered source; the
\* hook goes on to its next localVarsPlugin, and after the last the
\* template renders the chunk's jsonp-script code
localVarsReturn ==
  /\ pc = "localVars" /\ fstack = <<>>
  /\ LET file == chunks[ri].files[1]
     IN assets' = [assets EXCEPT ![file].source =
                     localVarsSource(assets[file].source, allDepChunkIds)]
  /\ IF hi < applied
     THEN hi' = hi + 1 /\ pc' = "render"
     ELSE hi' = 1 /\ pc' = "jsonpScript"
  /\ UNCHANGED <<inputs, ri, fstack, allDepChunkIds, optVars, tagVars, histVars>>

\* lines 24-29: the hi-th jsonpScriptPlugin of the jsonp-script hook appends
\* the integrity assignment; after the last the chunk is rendered
jsonpScriptPlugin ==
  /\ pc = "jsonpScript"
  /\ LET file == chunks[ri].files[1]
     IN assets' = [assets EXCEPT ![file].source = jsonpScriptSource(assets[file].source)]
  /\ IF hi < applied
     THEN hi' = hi + 1 /\ UNCHANGED <<ri, pc>>
     ELSE hi' = 1 /\ ri' = ri + 1 /\ pc' = "render"
  /\ UNCHANGED <<inputs, fstack, allDepChunkIds, optVars, tagVars, histVars>>

(***************************************************************************)
(* optimize-assets (lines 93-150)                                          *)
(***************************************************************************)
\* faulty variant: the visited set is kept from the invocation before
freshVisitedByChunkId_Retained(old) == old

\* what a new invocation of the handler starts from, whatever the maps of
\* the invocation before hold: lines 94-95
freshHashByChunkId(old) == <<>>
freshVisitedByChunkId(old) == {}

\* lines 93-95: the handler is invoked with fresh maps; the histories start
\* again with the invocation
optimizeAssetsPlugin ==
  /\ pc = "render" /\ ri > N
  /\ pc' = "optimizeAssets"
  /\ hashByChunkId' = freshHashByChunkId(hashByChunkId)
  /\ visitedByChunkId' = freshVisitedByChunkId(visitedByChunkId)
  /\ ci' = 1
  /\ stack' = <<>>
  /\ oldSources' = [f \in DOMAIN assets |-> assets[f].source]
  /\ hashWrites' = [c \in ChunkIds(chunks) |-> 0]
  /\ entered' = [c \in ChunkIds(chunks) |-> 0]
  /\ splices' = {}
  /\ callbacks' = 0
  /\ UNCHANGED <<inputs, assets, renderVars, tagVars, runs>>

\* lines 133-138: a chunk of compilation.chunks that is no root is passed over
forEachChunkSkip ==
  /\ pc = "optimizeAssets" /\ stack = <<>> /\ ci <= N
  /\ ~isRoot(ci)
  /\ ci' = ci + 1
  /\ UNCHANGED <<inputs, assets, pc, renderVars, stack, visitedByChunkId,
                 hashByChunkId, tagVars, histVars>>

\* faulty variant: the visited test of lines 99-101 is missing
processChunkCall_Revisit(chunk, below) ==
  IF Len(below) >= MaxStack
  THEN /\ pc' = "crashed"
       /\ UNCHANGED <<stack, visitedByChunkId, entered>>
  ELSE /\ visitedByChunkId' = visitedByChunkId \cup {chunk}
       /\ entered' = [entered EXCEPT ![chunk] = @ + 1]
       /\ stack' = Append(below, [chunk |-> chunk, i |-> 1, depChunkIds |-> <<>>])
       /\ pc' = pc

\* faulty variant: a visited chunk returns [chunk.id] instead of []
processChunkCall_ReturnsId(chunk, below) ==
  IF chunk \in visitedByChunkId
  THEN /\ stack' = IF below = <<>> THEN below
                   ELSE [below EXCEPT ![Len(below)].depChunkIds = @ \o <<chunk>>]
       /\ UNCHANGED <<pc, visitedByChunkId, entered>>
  ELSE IF Len(below) >= MaxStack
  THEN /\ pc' = "crashed"
       /\ UNCHANGED <<stack, visitedByChunkId, entered>>
  ELSE /\ visitedByChunkId' = visitedByChunkId \cup {chunk}
       /\ entered' = [entered EXCEPT ![chunk] = @ + 1]
       /\ stack' = Append(below, [chunk |-> chunk, i |-> 1, depChunkIds |-> <<>>])
       /\ pc' = pc

\* lines 99-102 for a call processChunkRecursive(chunk) made with frames
\* `below` under it: a visited chunk returns [] at once, another is marked
\* visited and gets a frame, unless the engine has none left (RangeError)
processChunkCall(chunk, below) ==
  IF chunk \in visitedByChunkId
  THEN /\ stack' = below
       /\ UNCHANGED <<pc, visitedByChunkId, entered>>
  ELSE IF Len(below) >= MaxStack
  THEN /\ pc' = "crashed"
       /\ UNCHANGED <<stack, visitedByChunkId, entered>>
  ELSE /\ visitedByChunkId' = visitedByChunkId \cup {chunk}
       /\ entered' = [entered EXCEPT ![chunk] = @ + 1]
       /\ stack' = Append(below, [chunk |-> chunk, i |-> 1, depChunkIds |-> <<>>])
       /\ pc' = pc

\* line 136: processChunkRecursive(chunk) for a root
forEachChunkRoot ==
  /\ pc = "optimizeAssets" /\ stack = <<>> /\ ci <= N
  /\ isRoot(ci)
  /\ ci' = ci + 1
  /\ processChunkCall(ci, <<>>)
  /\ UNCHANGED <<inputs, assets, renderVars, hashByChunkId, tagVars,
                 oldSources, hashWrites, splices, callbacks, runs>>

\* faulty variant: the forEach of lines 104-106 does not make the call
mapChunk_NoCall ==
  /\ pc = "optimizeAssets" /\ stack /= <<>>
  /\ LET f == stack[Len(stack)]
     IN /\ f.i <= Len(chunks[f.chunk].chunks)
        /\ stack' = [stack EXCEPT ![Len(stack)].i = f.i + 1]
        /\ UNCHANGED <<pc, visitedByChunkId, entered>>
  /\ UNCHANGED <<inputs, assets, renderVars, ci, hashByChunkId, tagVars,
                 oldSources, hashWrites, splices, callbacks, runs>>

\* lines 104-106: one iteration of chunk.chunks.forEach: the recursive call
mapChunk ==
  /\ pc = "optimizeAssets" /\ stack /= <<>>
  /\ LET f == stack[Len(stack)]
     IN /\ f.i <= Len(chunks[f.chunk].chunks)
        /\ processChunkCall(chunks[f.chunk].chunks[f.i],
                            [stack EXCEPT ![Len(stack)].i = f.i + 1])
  /\ UNCHANGED <<inputs, assets, renderVars, ci, hashByChunkId, tagVars,
                 oldSources, hashWrites, splices, callbacks, runs>>

\* lines 108-130: the chunk's children are done: its first file is patched
\* and hashed, and [chunk.id].concat(depChunkIds) is returned to the caller,
\* which concatenates it to its own depChunkIds (line 105)
processChunkReturn ==
  /\ pc = "optimizeAssets" /\ stack /= <<>>
  /\ LET f == stack[Len(stack)]
         chunk == chunks[f.chunk]
         chunkFile == chunkFileOf(chunk)
         oldSource == assets[chunkFile].source
         newSource == newSourceOf(oldSource, f.depChunkIds, hashByChunkId)
         result == <<f.chunk>> \o f.depChunkIds
         rest == SubSeq(stack, 1, Len(stack) - 1)
         replaced == { [chunk |-> f.chunk, dep |-> f.depChunkIds[j],
                        defined |-> f.depChunkIds[j] \in DOMAIN hashByChunkId] :
                       j \in { k \in 1..Len(f.depChunkIds) :
                                 IndexOf(oldSource, makePlaceholder(f.depChunkIds[k])) >= 0 } }
     IN /\ f.i > Len(chunk.chunks)
        /\ IF Len(chunk.files) = 0
           THEN /\ stack' = IF rest = <<>> THEN rest
                            ELSE [rest EXCEPT ![Len(rest)].depChunkIds = @ \o result]
                /\ UNCHANGED <<pc, assets, hashByChunkId, hashWrites, splices>>
           ELSE IF chunkFile \notin DOMAIN assets
           \* line 111: assets[chunkFile] is undefined, .source() throws a
           \* TypeError that leaves the handler
           THEN /\ pc' = "typeError"
                /\ stack' = <<>>
                /\ UNCHANGED <<assets, hashByChunkId, hashWrites, splices>>
           ELSE IF createHashThrows
           \* line 128: the asset is replaced (line 125), then computeIntegrity
           \* throws and leaves the handler
           THEN /\ pc' = "digestError"
                /\ stack' = <<>>
                /\ assets' = [assets EXCEPT ![chunkFile] = Asset(newSource, <<>>)]
                /\ splices' = splices \cup replaced
                /\ UNCHANGED <<hashByChunkId, hashWrites>>
           ELSE /\ assets' = [assets EXCEPT ![chunkFile] =
                                Asset(newSource, newAssetIntegrity(oldSource, newSource))]
                /\ hashByChunkId' =
                     [c \in DOMAIN hashByChunkId \cup {f.chunk} |->
                        IF c = f.chunk THEN newAssetIntegrity(oldSource, newSource)
                        ELSE hashByChunkId[c]]
                /\ hashWrites' = [hashWrites EXCEPT ![f.chunk] = @ + 1]
                /\ splices' = splices \cup replaced
                /\ stack' = IF rest = <<>> THEN rest
                            ELSE [rest EXCEPT ![Len(rest)].depChunkIds = @ \o result]
                /\ pc' = pc
  /\ UNCHANGED <<inputs, renderVars, ci, visitedByChunkId, tagVars,
                 oldSources, entered, callbacks, runs>>

\* lines 140-147: every asset without an integrity gets one from its source;
\* with a name createHash rejects, line 144 throws for the first such asset
\* and leaves the handler
sweepAssets ==
  /\ pc = "optimizeAssets" /\ stack = <<>> /\ ci > N
  /\ IF createHashThrows /\ \E key \in DOMAIN assets : assets[key].integrity = <<>>
     THEN pc' = "digestError" /\ assets' = assets
     ELSE /\ assets' = [key \in DOMAIN assets |-> sweptAsset(assets[key])]
          /\ pc' = "callback"
  /\ UNCHANGED <<inputs, renderVars, optVars, tagVars, histVars>>

\* line 149: callback()
optimizeAssetsCallback ==
  /\ pc = "callback"
  /\ callbacks' = callbacks + 1
  /\ runs' = Append(runs, [old |-> oldSources, hashes |-> hashByChunkId,
                           assets |-> assets])
  /\ pc' = "htmlTags"
  /\ UNCHANGED <<inputs, assets, renderVars, optVars, tagVars, oldSources,
                 hashWrites, entered, splices>>

(***************************************************************************)
(* html-webpack-plugin-alter-asset-tags (lines 152-195)                    *)
(***************************************************************************)
\* /\?[a-zA-Z0-9]+$/: the places where a '?' starts a match
queryMatches(src) ==
  { p \in 1..Len(src) :
      /\ src[p] = "?"
      /\ p < Len(src)
      /\ \A q \in (p + 1)..Len(src) : src[q] \in Alnum }

\* line 155: src.replace(/\?[a-zA-Z0-9]+$/, ''): the first match is removed
stripQuery(src) ==
  IF queryMatches(src) = {} THEN src
  ELSE SubSeq(src, 1, Min(queryMatches(src)) - 1)

\* lines 152-156
getTagSrc(tag) ==
  LET src == IF tag.attributes.href /= <<>> THEN tag.attributes.href
             ELSE tag.attributes.src
  IN IF src = <<>> THEN src ELSE stripQuery(src)

\* lines 158-161
filterTag(tag) ==
  /\ tag.tagName = "script" \/ tag.tagName = "link"
  /\ getTagSrc(tag) /= <<>>

RECURSIVE pathSegments(_)
\* the segments of a path: what stands between its '/'
pathSegments(p) ==
  LET slashes == {i \in 1..Len(p) : p[i] = "/"}
  IN IF slashes = {} THEN <<p>>
     ELSE <<SubSeq(p, 1, Min(slashes) - 1)>>
          \o pathSegments(SubSeq(p, Min(slashes) + 1, Len(p)))

\* path.isAbsolute (posix)
isAbsolute(p) == p /= <<>> /\ p[1] = "/"

RECURSIVE normalizeSegments(_, _)
\* the segments of an absolute path normalized: empty segments and '.' go,
\* '..' takes the segment before it with it and goes alone at the root;
\* acc holds the segments kept so far
normalizeSegments(segs, acc) ==
  IF segs = <<>> THEN acc
  ELSE normalizeSegments(Tail(segs),
         IF Head(segs) = <<>> \/ Head(segs) = <<".">> THEN acc
         ELSE IF Head(segs) = <<"..">>
              THEN SubSeq(acc, 1, Len(acc) - 1)
              ELSE Append(acc, Head(segs)))

\* the segments of path.resolve(...paths): the arguments from the last
\* absolute one on, after process.cwd() when none is absolute
resolvedSegments(paths) ==
  LET abs == {i \in 1..Len(paths) : isAbsolute(paths[i])}
      first == IF abs = {} THEN 1 ELSE Max(abs)
      base == IF abs = {} THEN pathSegments(cwd) ELSE <<>>
  IN normalizeSegments(
       base \o Join([i \in 1..(Len(paths) - first + 1) |->
                       pathSegments(paths[first + i - 1])], <<>>),
       <<>>)

\* path.resolve(...paths) (posix): an absolute path without a trailing '/'
pathResolve(paths) == <<"/">> \o Join(resolvedSegments(paths), <<"/">>)

\* path.relative(from, to) (posix): both are resolved; the result climbs out
\* of what `from` has beyond their common directories and descends into the
\* rest of `to`
pathRelative(from, to) ==
  LET f == resolvedSegments(<<from>>)
      t == resolvedSegments(<<to>>)
      n == Max({m \in 0..Min({Len(f), Len(t)}) : SubSeq(f, 1, m) = SubSeq(t, 1, m)})
  IN Join([i \in 1..(Len(f) - n) |-> <<"..">>] \o SubSeq(t, n + 1, Len(t)),
          <<"/">>)

\* path.dirname (posix) of a path that does not end in '/'
pathDirname(p) ==
  LET slashes == {i \in 1..Len(p) : p[i] = "/"}
  IN IF slashes = {} THEN <<".">>
     ELSE IF Max(slashes) = 1 THEN <<"/">>
     ELSE SubSeq(p, 1, Max(slashes) - 1)

\* line 172
htmlOutputDir == pathDirname(filename)

\* lines 175-179: the reference relative to the public path, taken as a path
\* below the directory of the html file, relative to the output directory
tagAssetKey(tag) ==
  pathRelative(outputPath,
               pathResolve(<<outputPath, htmlOutputDir,
                             pathRelative(publicPath, getTagSrc(tag))>>))

\* lines 163-166: asset && asset.integrity; <<>> when there is none
getIntegrityChecksumForAsset(src) ==
  IF Len(src) = 1 /\ src[1] \in DOMAIN assets
  THEN assets[src[1]].integrity
  ELSE <<>>

\* faulty variant: line 189 is missing
processTag_NoCrossorigin(tag) ==
  LET checksum == getIntegrityChecksumForAsset(tagAssetKey(tag))
  IN IF checksum = <<>> THEN tag
     ELSE [tag EXCEPT !.attributes.integrity = checksum]

\* lines 174-190: the tag after processTag
processTag(tag) ==
  LET checksum == getIntegrityChecksumForAsset(tagAssetKey(tag))
  IN IF checksum = <<>> THEN tag
     ELSE [tag EXCEPT !.attributes.integrity = checksum,
                      !.attributes.crossorigin = "anonymous"]

\* lines 181-185: the warnings after processTag
processTagWarnings(tag) ==
  IF getIntegrityChecksumForAsset(tagAssetKey(tag)) = <<>>
  THEN Append(warnings, [src |-> tagAssetKey(tag)])
  ELSE warnings

\* line 192: the next tag of pluginArgs.head
forEachHeadTag ==
  /\ pc = "htmlTags" /\ ti <= Len(head)
  /\ IF filterTag(head[ti])
     THEN /\ head' = [head EXCEPT ![ti] = processTag(head[ti])]
          /\ warnings' = processTagWarnings(head[ti])
     ELSE UNCHANGED <<head, warnings>>
  /\ ti' = ti + 1
  /\ UNCHANGED <<inputs, assets, pc, renderVars, optVars, body, htmlCallbacks, histVars>>

\* line 193: the next tag of pluginArgs.body
forEachBodyTag ==
  /\ pc = "htmlTags" /\ ti > Len(head) /\ ti <= Len(head) + Len(body)
  /\ LET j == ti - Len(head)
     IN IF filterTag(body[j])
        THEN /\ body' = [body EXCEPT ![j] = processTag(body[j])]
             /\ warnings' = processTagWarnings(body[j])
        ELSE UNCHANGED <<body, warnings>>
  /\ ti' = ti + 1
  /\ UNCHANGED <<inputs, assets, pc, renderVars, optVars, head, htmlCallbacks, histVars>>

\* line 194: callback(null)
supportHtmlWebpackCallback ==
  /\ pc = "htmlTags" /\ ti > Len(head) + Len(body)
  /\ htmlCallbacks' = Append(htmlCallbacks, "null")
  /\ pc' = "done"
  /\ UNCHANGED <<inputs, assets, renderVars, optVars, head, body, ti, warnings, histVars>>

(***************************************************************************)
(* The plugin's life on one compiler: construction (lines 57-67), apply    *)
(* (lines 70-202), and the events of each compilation the compiler makes:  *)
(* 'this-compilation', then 'compilation'.                                 *)
(***************************************************************************)
\* faulty variant: the test of line 62 is missing
SubresourceIntegrityPlugin_AcceptsEmpty ==
  /\ pc = "new"
  /\ IF arg.type = "string"
     THEN algorithms' = <<arg.str>> /\ error' = error /\ pc' = "constructed"
     ELSE IF arg.type /= "array"
     THEN /\ error' = "Expected an array of strings or a string"
          /\ algorithms' = algorithms /\ pc' = "threw"
     ELSE algorithms' = arg.arr /\ error' = error /\ pc' = "constructed"
  /\ UNCHANGED <<chunks, arg, publicPath, env, handlers, applied, builds, generated,
                 assets, renderVars, optVars, tagVars, histVars>>

\* lines 57-67: new SubresourceIntegrityPlugin(arg)
SubresourceIntegrityPlugin ==
  /\ pc = "new"
  /\ IF arg.type = "string"
     THEN algorithms' = <<arg.str>> /\ error' = error /\ pc' = "constructed"
     ELSE IF arg.type /= "array"
     THEN /\ error' = "Expected an array of strings or a string"
          /\ algorithms' = algorithms /\ pc' = "threw"
     ELSE IF Len(arg.arr) = 0
     THEN /\ error' = "Algorithms array must not be empty"
          /\ algorithms' = algorithms /\ pc' = "threw"
     ELSE algorithms' = arg.arr /\ error' = error /\ pc' = "constructed"
  /\ UNCHANGED <<chunks, arg, publicPath, env, handlers, applied, builds, generated,
                 assets, renderVars, optVars, tagVars, histVars>>

\* lines 70-80 and 201: apply(compiler) registers compilationPlugin
apply ==
  /\ pc = "constructed"
  /\ pc' = "idle"
  /\ UNCHANGED <<inputs, assets, renderVars, optVars, tagVars, histVars>>

\* lines 85-87: the compiler creates a compilation and fires 'this-compilation':
\* every thisCompilationPlugin registered so far applies a
\* WebIntegrityJsonpMainTemplatePlugin to the new main template.  The
\* compilation generates its files and its tags anew.
thisCompilationPlugin ==
  /\ pc \in {"idle", "done"}
  /\ builds < MaxBuilds
  /\ builds' = builds + 1
  /\ applied' = handlers
  /\ assets' = [f \in DOMAIN generated |-> Asset(generated[f], <<>>)]
  /\ ri' = 1 /\ hi' = 1 /\ fstack' = <<>> /\ allDepChunkIds' = <<>>
  /\ \E pluginArgs \in BasicTagInputs(publicPath) :
       /\ head' = pluginArgs.head
       /\ body' = pluginArgs.body
  /\ ti' = 1 /\ warnings' = <<>> /\ htmlCallbacks' = <<>>
  /\ pc' = "compilation"
  /\ UNCHANGED <<chunks, arg, algorithms, error, publicPath, env, handlers, generated,
                 optVars, histVars>>

\* lines 80-93 and 200: 'compilation' is fired: compilationPlugin registers
\* one more thisCompilationPlugin on the compiler, and optimizeAssetsPlugin
\* and supportHtmlWebpack on the compilation
compilationPlugin ==
  /\ pc = "compilation"
  /\ handlers' = handlers + 1
  /\ pc' = "render"
  /\ UNCHANGED <<chunks, arg, algorithms, error, publicPath, env, applied, builds,
                 generated, assets, renderVars, optVars, tagVars, histVars>>

Next ==
  \/ RenderPlain
  \/ localVarsNoChildren
  \/ localVarsCall
  \/ findDepChunks
  \/ findDepChunksReturn
  \/ localVarsReturn
  \/ jsonpScriptPlugin
  \/ optimizeAssetsPlugin
  \/ forEachChunkSkip
  \/ forEachChunkRoot
  \/ mapChunk
  \/ processChunkReturn
  \/ sweepAssets
  \/ optimizeAssetsCallback
  \/ forEachHeadTag
  \/ forEachBodyTag
  \/ supportHtmlWebpackCallback

\* a build with its rebuilds, from the constructor on
NextLife ==
  \/ SubresourceIntegrityPlugin
  \/ apply
  \/ thisCompilationPlugin
  \/ compilationPlugin
  \/ Next

Spec == Init /\ [][Next]_vars
SpecTags == InitTags /\ [][Next]_vars
SpecLife == InitLife /\ [][NextLife]_vars
SpecPartial == InitPartial /\ [][Next]_vars
SpecFaults == InitFaults /\ [][Next]_vars

(***************************************************************************)
(* Vocabulary of the properties                                            *)
(***************************************************************************)
Acyclic(g) == \A c \in ChunkIds(g) : c \notin Reach(g, c)
AllOwnFiles(g) == \A c \in ChunkIds(g) : Len(g[c].files) > 0
Roots(g) == {c \in ChunkIds(g) : holdsRuntime(g[c])}

\* the optimize-assets pass has resolved every root and swept the assets
PassDone == pc \in {"callback", "htmlTags", "done"}

Contains(s, sub) == IndexOf(s, sub) >= 0

\* the text a digest string was computed from
HashedText(integrity) == integrity[3].body

Occurrences(s, sub) ==
  Cardinality({i \in 0..(Len(s) - Len(sub)) : SubSeq(s, i + 1, i + Len(sub)) = sub})

FirstFile(c) == chunks[c].files[1]

\* the chunks the pass has to hash: a root or a descendant of one, with a file
Resolvable ==
  {c \in ChunkIds(chunks) :
     /\ Len(chunks[c].files) > 0
     /\ \E r \in Roots(chunks) : c = r \/ c \in Reach(chunks, r)}

RECURSIVE SetSum(_, _)
\* the sum of w[x] over the x of S
SetSum(S, w) ==
  IF S = {} THEN 0
  ELSE LET x == CHOOSE y \in S : TRUE IN w[x] + SetSum(S \ {x}, w)

(* C1 (as claimed): on an acyclic graph with one root whose chunks all own  *)
(* an output file (the chain, the diamond), once the pass is done every     *)
(* visited A and every B reachable from A whose marker occurred in A's      *)
(* first file has B's digest in hashByChunkId, and that digest is in the    *)
(* text A's digest was computed from and in A's final content.              *)
C1_DescendantsSpliced ==
  (PassDone /\ Acyclic(chunks) /\ AllOwnFiles(chunks) /\ Cardinality(Roots(chunks)) = 1)
  => \A A \in visitedByChunkId : \A B \in Reach(chunks, A) :
       Contains(oldSources[FirstFile(A)], makePlaceholder(B))
       => /\ B \in DOMAIN hashByChunkId
          /\ A \in DOMAIN hashByChunkId
          /\ Contains(HashedText(hashByChunkId[A]), hashByChunkId[B])
          /\ Contains(assets[FirstFile(A)].source, hashByChunkId[B])

\* every root with children starts the pass with exactly the mapping the
\* local-vars plugin emits: one marker for each id reachable from it
RootsCarryMapping ==
  /\ instrumented /\ Acyclic(chunks) /\ AllOwnFiles(chunks)
  /\ \A r \in Roots(chunks) : \A d \in ChunkIds(chunks) :
       Occurrences(oldSources[FirstFile(r)], makePlaceholder(d))
         = IF d \in Reach(chunks, r) THEN 1 ELSE 0

(* C2 (as claimed): when every root carries the emitted mapping, then once  *)
(* the pass is done no root's content holds the marker of a chunk whose     *)
(* digest was computed, and it holds the digest of each such descendant.    *)
C2_RootsFullySubstituted ==
  (PassDone /\ RootsCarryMapping)
  => \A r \in Roots(chunks) : \A d \in DOMAIN hashByChunkId :
       /\ ~Contains(assets[FirstFile(r)].source, makePlaceholder(d))
       /\ d \in Reach(chunks, r) => Contains(assets[FirstFile(r)].source, hashByChunkId[d])

C3_Inv ==
  /\ \A c \in ChunkIds(chunks) : hashWrites[c] <= 1
  /\ PassDone => \A c \in Resolvable : hashWrites[c] = 1 /\ c \in DOMAIN hashByChunkId

C3_Step ==
  pc = "optimizeAssets"
  => \A c \in DOMAIN hashByChunkId :
       c \in DOMAIN hashByChunkId' /\ hashByChunkId'[c] = hashByChunkId[c]

(* C3: within a pass hashByChunkId[id] is written at most once for every    *)
(* id, an entry once written is never changed by a later step of the pass,  *)
(* and when the pass is done every chunk that is a root or reachable from a *)
(* root and owns a file has been hashed exactly once.                       *)
C3_HashedOnce == [] C3_Inv /\ [][C3_Step]_vars

\* a shared descendant was reached a second time and hashed once
C3_Witness ==
  /\ PassDone /\ chunks = Diamond
  /\ hashWrites[4] = 1 /\ 4 \in DOMAIN hashByChunkId

\* the value replace() was given for a dependency
SplicedValue(d) == IF d \in DOMAIN hashByChunkId THEN hashByChunkId[d] ELSE <<>>

\* where the value spliced for sp starts in the patched text: the marker's
\* place in the old text, moved by the splices made to the left of it
SplicedAt(sp) ==
  LET old == oldSources[FirstFile(sp.chunk)]
      p == IndexOf(old, makePlaceholder(sp.dep))
      left == {x \in splices :
                 /\ x.chunk = sp.chunk
                 /\ IndexOf(old, makePlaceholder(x.dep)) < p}
      growth == [x \in left |->
                  Len(SplicedValue(x.dep)) - Len(makePlaceholder(x.dep))]
  IN p + SetSum(left, growth)

(* C4: when the pass is done, for every visited chunk A with a file,        *)
(* hashByChunkId[A] is computeIntegrity of the content the asset map holds  *)
(* for A's first file and is that asset's integrity; and for every digest   *)
(* spliced into A, A's final content holds the digest exactly where the     *)
(* marker was.                                                              *)
C4_DigestOfFinalBytes ==
  PassDone =>
    /\ \A A \in visitedByChunkId : Len(chunks[A].files) > 0 =>
         /\ A \in DOMAIN hashByChunkId
         /\ hashByChunkId[A] = computeIntegrity(assets[FirstFile(A)].source)
         /\ assets[FirstFile(A)].integrity = hashByChunkId[A]
    /\ \A sp \in splices : sp.defined =>
         SubSeq(assets[FirstFile(sp.chunk)].source,
                SplicedAt(sp) + 1,
                SplicedAt(sp) + Len(hashByChunkId[sp.dep])) = hashByChunkId[sp.dep]

\* the chain 1 -> 2 -> 3 with both digests spliced into chunk 1
C4_Witness ==
  /\ PassDone /\ chunks = Chain
  /\ [chunk |-> 1, dep |-> 2, defined |-> TRUE] \in splices
  /\ [chunk |-> 1, dep |-> 3, defined |-> TRUE] \in splices
  /\ [chunk |-> 2, dep |-> 3, defined |-> TRUE] \in splices
  /\ assets["c1.js"].source /= oldSources["c1.js"]

C5_Inv == PassDone => \A key \in DOMAIN assets : assets[key].integrity /= <<>>

C5_Step ==
  (pc = "optimizeAssets" /\ pc' = "callback")
  => /\ DOMAIN assets' = DOMAIN assets
     /\ \A key \in DOMAIN assets :
          IF assets[key].integrity = <<>>
          THEN /\ assets'[key].source = assets[key].source
               /\ assets'[key].integrity = computeIntegrity(assets[key].source)
          ELSE assets'[key] = assets[key]

(* C5: when the callback is invoked every asset has an integrity; the sweep *)
(* gives an asset that had none the computeIntegrity of its unchanged       *)
(* content and leaves an asset that had one as it was.                      *)
C5_SweepAnnotatesAll == [] C5_Inv /\ [][C5_Step]_vars

\* the sweep hashed a static asset and an unreachable chunk's file with its
\* markers still in it, next to assets the resolver had annotated
C5_Witness ==
  /\ pc = "callback" /\ chunks = Mixed
  /\ assets[StaticFile].integrity = computeIntegrity(<<Lit(StaticFile)>>)
  /\ Contains(assets["c4.js"].source, makePlaceholder(3))
  /\ assets["c4.js"].integrity = computeIntegrity(oldSources["c4.js"])
  /\ assets["c1.js"].integrity = hashByChunkId[1]
  /\ assets["c1.js"].source /= oldSources["c1.js"]

\* a bound on the steps processChunkRecursive still has to take: the chunks
\* of compilation.chunks not yet looked at, the iterations and the return of
\* every unvisited chunk, and the iterations and the return left to every
\* frame
TraversalRank ==
  (N + 1 - ci)
  + SetSum({c \in ChunkIds(chunks) : c \notin visitedByChunkId},
           [c \in ChunkIds(chunks) |-> Len(chunks[c].chunks) + 1])
  + SetSum(1..Len(stack),
           [k \in 1..Len(stack) |-> Len(chunks[stack[k].chunk].chunks) - stack[k].i + 2])

\* a bound on the steps the optimize-assets handler still has to take
HandlerRank ==
  IF pc = "optimizeAssets" THEN TraversalRank + 2
  ELSE IF pc = "callback" THEN 1 ELSE 0

\* no statement of the handler throws: the pass has not crashed, and a chunk
\* about to be patched finds its first file in the asset map
HandlerCanStep ==
  /\ pc /= "crashed" \/ stack = <<>>
  /\ \A k \in 1..Len(stack) :
       /\ stack[k].i >= 1 /\ stack[k].i <= Len(chunks[stack[k].chunk].chunks) + 1
       /\ Len(chunks[stack[k].chunk].files) > 0
            => chunks[stack[k].chunk].files[1] \in DOMAIN assets

C6_Inv ==
  /\ callbacks <= 1
  /\ callbacks = 1 =>
       /\ pc \in {"htmlTags", "done"}
       /\ ci > N /\ stack = <<>>
       /\ Roots(chunks) \subseteq visitedByChunkId
       /\ \A key \in DOMAIN assets : assets[key].integrity /= <<>>
  /\ pc \in {"htmlTags", "done"} => callbacks = 1
  /\ pc \in {"optimizeAssets", "callback"} => callbacks = 0 /\ HandlerRank > 0
  /\ HandlerCanStep

C6_Step ==
  pc \in {"optimizeAssets", "callback"}
  => /\ HandlerRank' < HandlerRank
     /\ HandlerRank' = 0 <=> callbacks' = 1

(* C6 (as claimed), on any asset map and any configured algorithm names:    *)
(* the optimize-assets callback is invoked at most once and only when       *)
(* every root is resolved and the sweep has finished; and it is never       *)
(* skipped: no statement of the handler throws, and every step of the       *)
(* handler brings it one step nearer to the call, which is its last.        *)
C6_CallbackOnce == [] C6_Inv /\ [][C6_Step]_vars

C7_Inv ==
  /\ \A c \in ChunkIds(chunks) : entered[c] <= 1
  /\ \A i, j \in 1..Len(stack) : stack[i].chunk = stack[j].chunk => i = j
  /\ pc = "crashed" => stack = <<>>
  /\ pc = "optimizeAssets" => TraversalRank >= 0

\* a call on a visited chunk: the caller's frame only moves to its next child
C7_VisitedStep ==
  (/\ pc = "optimizeAssets" /\ stack /= <<>>
   /\ stack[Len(stack)].i <= Len(chunks[stack[Len(stack)].chunk].chunks)
   /\ chunks[stack[Len(stack)].chunk].chunks[stack[Len(stack)].i] \in visitedByChunkId)
  => /\ pc' = "optimizeAssets"
     /\ Len(stack') = Len(stack)
     /\ stack'[Len(stack)].depChunkIds = stack[Len(stack)].depChunkIds
     /\ visitedByChunkId' = visitedByChunkId

\* every step of the traversal uses up one of the steps left to it
C7_RankStep ==
  pc = "optimizeAssets"
  => \/ pc' = "optimizeAssets" /\ TraversalRank' = TraversalRank - 1
     \/ pc' = "callback" /\ stack = <<>> /\ ci > N

(* C7: processChunkRecursive enters every chunk at most once per pass, no   *)
(* chunk is on the call stack twice, the recursion never exhausts the       *)
(* stack, a call on a visited chunk adds no ids and no frame, and on every  *)
(* graph, cyclic ones included, each step uses up one of finitely many      *)
(* steps, so the traversal comes to its end.                                *)
C7_Terminates == [] C7_Inv /\ [][C7_VisitedStep /\ C7_RankStep]_vars

\* the cycle 1 -> 2 -> 1 with the self-loop 2 -> 2 was traversed to the end
C7_Witness ==
  /\ pc = "callback" /\ chunks = Cyclic
  /\ visitedByChunkId = {1, 2} /\ entered[1] = 1 /\ entered[2] = 1

(* C8 (as claimed): findDepChunks never exhausts the stack, and no chunk is *)
(* on its call stack twice (an id already met is not descended into).       *)
C8_CollectionTerminates ==
  /\ pc = "crashed" => fstack = <<>>
  /\ \A i, j \in 1..Len(fstack) : fstack[i].chunk = fstack[j].chunk => i = j

\* the tags of the head and of the body, in the order they are processed
AllTags == head \o body

\* the tag as it was handed over
OriginalTag(t) ==
  [t EXCEPT !.attributes.integrity = <<>>, !.attributes.crossorigin = "undefined"]

\* a script or link tag with a reference
Recognised(t) ==
  /\ t.tagName \in {"script", "link"}
  /\ t.attributes.href /= <<>> \/ t.attributes.src /= <<>>

\* the integrity of the asset the tag's reference resolves to, <<>> if none
ResolvedIntegrity(t) == getIntegrityChecksumForAsset(tagAssetKey(OriginalTag(t)))

\* the processed tags that are recognised and did not resolve
Unresolved ==
  {i \in 1..Len(AllTags) :
     i < ti /\ Recognised(AllTags[i]) /\ ResolvedIntegrity(AllTags[i]) = <<>>}

(* C9: every processed script or link tag with a reference whose resolved   *)
(* asset has an integrity carries that integrity and crossorigin            *)
(* 'anonymous'; every other tag is as it was handed over; the warnings are  *)
(* one per unresolved tag, in order, naming its key; tags after an          *)
(* unresolved one are processed all the same; and the callback is invoked   *)
(* once, with null, after the last tag.                                     *)
C9_TagsAnnotatedOrWarned ==
  /\ \A i \in 1..Len(AllTags) :
       IF i < ti /\ Recognised(AllTags[i]) /\ ResolvedIntegrity(AllTags[i]) /= <<>>
       THEN /\ AllTags[i].attributes.integrity = ResolvedIntegrity(AllTags[i])
            /\ AllTags[i].attributes.crossorigin = "anonymous"
       ELSE AllTags[i] = OriginalTag(AllTags[i])
  /\ Len(warnings) = Cardinality(Unresolved)
  /\ \A i \in Unresolved :
       warnings[Cardinality({j \in Unresolved : j <= i})]
         = [src |-> tagAssetKey(AllTags[i])]
  /\ Len(htmlCallbacks) <= 1
  /\ htmlCallbacks /= <<>> => (htmlCallbacks = <<"null">> /\ ti = Len(AllTags) + 1)
  /\ pc = "done" <=> htmlCallbacks /= <<>>

\* an unresolved tag was followed by a tag that got its integrity
C9_Witness ==
  /\ pc = "done" /\ Len(head) = 1 /\ Len(body) = 1
  /\ Recognised(head[1]) /\ head[1].attributes.integrity = <<>>
  /\ warnings = <<[src |-> tagAssetKey(head[1])]>>
  /\ body[1].attributes.integrity = assets["c1.js"].integrity
  /\ body[1].attributes.crossorigin = "anonymous"
  /\ htmlCallbacks = <<"null">>

\* a reference without its public path and without its query component:
\* what is left of the first '?' of the reference
PathOfReference(ref) ==
  LET rel == IF publicPath /= <<>> /\ Len(ref) >= Len(publicPath)
                  /\ SubSeq(ref, 1, Len(publicPath)) = publicPath
             THEN SubSeq(ref, Len(publicPath) + 1, Len(ref)) ELSE ref
      marks == {p \in 1..Len(rel) : rel[p] = "?"}
  IN IF marks = {} THEN rel ELSE SubSeq(rel, 1, Min(marks) - 1)

(* C10 (as claimed): once the tags are processed, every script tag whose    *)
(* reference is <asset>?<query> carries the integrity of <asset>, whatever  *)
(* the query is.                                                            *)
C10_QueryStripped ==
  pc = "done" =>
    \A i \in 1..Len(AllTags) :
      LET t == AllTags[i]
          path == PathOfReference(t.attributes.src)
      IN (/\ t.tagName = "script"
          /\ Len(path) = 1 /\ path[1] \in DOMAIN assets
          /\ Len(t.attributes.src) > Len(publicPath) + 1)
         => t.attributes.integrity = assets[path[1]].integrity

\* the constructor has returned or thrown
Constructed == pc /= "new"

\* the argument is a string or a non-empty array
AcceptableArg == arg.type = "string" \/ (arg.type = "array" /\ Len(arg.arr) >= 1)

(* C11: once the constructor has run, it has thrown exactly when the        *)
(* argument is neither a string nor a non-empty array; a string s gave the  *)
(* list [s] and a non-empty array is the list as it was handed over; after  *)
(* a throw there is an error message, no list, no handler registered and no *)
(* compilation, ever; after a return the list is never empty.               *)
C11_ConstructorContract ==
  Constructed =>
    /\ pc = "threw" <=> ~AcceptableArg
    /\ arg.type = "string" => algorithms = <<arg.str>>
    /\ (arg.type = "array" /\ Len(arg.arr) >= 1) => algorithms = arg.arr
    /\ pc = "threw" =>
         /\ error /= "" /\ algorithms = <<>>
         /\ handlers = 0 /\ applied = 0 /\ builds = 0
    /\ pc /= "threw" => (error = "" /\ Len(algorithms) >= 1)

\* a string argument became a one-element list that a whole build has used
C11_Witness ==
  /\ pc = "done" /\ arg = Arg("string", "sha384", <<>>)
  /\ algorithms = <<"sha384">>
  /\ assets[StaticFile].integrity /= <<>>

(* C12: every integrity an asset carries is, for the configured list        *)
(* a1..an, the entries ai, '-', base64 digest of the asset's content under  *)
(* ai, in the configured order, with one space between two entries and none *)
(* before the first or after the last.                                      *)
C12_IntegrityFormat ==
  \A f \in DOMAIN assets :
    LET integrity == assets[f].integrity
        n == Len(algorithms)
    IN integrity /= <<>> =>
         /\ n >= 1
         /\ Len(integrity) = 4 * n - 1
         /\ \A i \in 1..n :
              /\ integrity[4 * i - 3] = Lit(algorithms[i])
              /\ integrity[4 * i - 2] = Lit("-")
              /\ integrity[4 * i - 1] = Digest(algorithms[i], assets[f].source)
         /\ \A i \in 1..(n - 1) : integrity[4 * i] = Lit(" ")

\* two algorithms, in an order that is not the alphabetical one
C12_Witness ==
  /\ PassDone /\ algorithms = <<"sha384", "sha256">>
  /\ assets["c1.js"].integrity
       = << Lit("sha384"), Lit("-"), Digest("sha384", assets["c1.js"].source),
            Lit(" "),
            Lit("sha256"), Lit("-"), Digest("sha256", assets["c1.js"].source) >>

\* processChunkRecursive is about to patch and hash the first file of the
\* chunk on top of the stack
AboutToHash ==
  /\ pc = "optimizeAssets" /\ stack /= <<>>
  /\ stack[Len(stack)].i > Len(chunks[stack[Len(stack)].chunk].chunks)
  /\ Len(chunks[stack[Len(stack)].chunk].files) > 0

\* the chunk about to be hashed, its dependency ids, and those whose marker
\* occurs in its content
HashingChunk == stack[Len(stack)].chunk
HashingDeps == Range(stack[Len(stack)].depChunkIds)
HashingPresent ==
  {d \in HashingDeps : Contains(assets[FirstFile(HashingChunk)].source, makePlaceholder(d))}

C13_Step ==
  AboutToHash =>
    LET file == FirstFile(HashingChunk)
        old == assets[file].source
        new == assets'[file].source
    IN /\ pc' = "optimizeAssets" /\ warnings' = warnings
       /\ \A d \in HashingDeps \ HashingPresent :
            /\ \A sp \in splices' : ~(sp.chunk = HashingChunk /\ sp.dep = d)
            /\ Occurrences(new, makePlaceholder(d)) = 0
       /\ \A d \in HashingPresent :
            /\ \E sp \in splices' : sp.chunk = HashingChunk /\ sp.dep = d
            /\ Occurrences(new, makePlaceholder(d))
                 = Occurrences(old, makePlaceholder(d)) - 1
            /\ d \in DOMAIN hashByChunkId => Contains(new, hashByChunkId[d])
       /\ HashingPresent = {} =>
            /\ new = old
            /\ hashByChunkId'[HashingChunk] = computeIntegrity(old)
            /\ assets'[file].integrity = computeIntegrity(old)

(* C13: when a chunk's first file is patched, a dependency id whose marker  *)
(* does not occur in it gets no substitution, no error and no warning is    *)
(* raised, every dependency id whose marker occurs has its first occurrence *)
(* replaced, and if no marker occurs the content is unchanged and the       *)
(* chunk's integrity is that of the unchanged content.                      *)
C13_MissingPlaceholderTolerated == [][C13_Step]_vars

\* chunk 1 of the chain had the dependency ids 2 and 3, its file held the
\* marker of 3 but not of 2, and the digest of 3 was spliced in
C13_Witness ==
  /\ PassDone /\ chunks = Chain /\ applied = 0
  /\ ~Contains(oldSources["c1.js"], makePlaceholder(2))
  /\ Contains(oldSources["c1.js"], makePlaceholder(3))
  /\ splices = {[chunk |-> 1, dep |-> 3, defined |-> TRUE]}
  /\ Contains(assets["c1.js"].source, hashByChunkId[3])
  /\ ~Contains(oldSources["c2.js"], makePlaceholder(3))
  /\ assets["c2.js"].source = oldSources["c2.js"]
  /\ hashByChunkId[2] = computeIntegrity(oldSources["c2.js"])

\* the mapping entry of an id: id:"marker"
MappingEntry(d) == <<Num(d), Lit(":\"")>> \o makePlaceholder(d) \o <<Lit("\"")>>

\* what a step appended to the text of file f
Appended(f) == SubSeq(assets'[f].source, Len(assets[f].source) + 1, Len(assets'[f].source))

C14_Inv ==
  Acyclic(chunks) =>
    /\ pc /= "crashed"
    /\ \A i, j \in 1..Len(allDepChunkIds) : allDepChunkIds[i] = allDepChunkIds[j] => i = j
    /\ pc \in {"localVars", "jsonpScript"} => Range(allDepChunkIds) \subseteq Reach(chunks, ri)

C14_Step ==
  /\ (Acyclic(chunks) /\ pc = "localVars" /\ fstack = <<>>) =>
       LET f == FirstFile(ri)
       IN /\ Range(allDepChunkIds) = Reach(chunks, ri)
          /\ SubSeq(assets'[f].source, 1, Len(assets[f].source)) = assets[f].source
          /\ Occurrences(Appended(f), <<Lit("var sriHashes = {")>>) = 1
          /\ \A d \in ChunkIds(chunks) :
               /\ Occurrences(Appended(f), MappingEntry(d))
                    = IF d \in Reach(chunks, ri) THEN 1 ELSE 0
               /\ Occurrences(Appended(f), makePlaceholder(d))
                    = Occurrences(Appended(f), MappingEntry(d))
          /\ \A g \in DOMAIN assets : g /= f => assets'[g] = assets[g]
  /\ (/\ pc = "render" /\ ri <= N /\ isRoot(ri) /\ instrumented
      /\ Len(chunks[ri].chunks) = 0) => assets' = assets

(* C14: on an acyclic graph the local-vars plugin, run for a chunk with     *)
(* children, ends without exhausting the stack and appends to the chunk's   *)
(* source one mapping with exactly one entry id:"marker(id)" for every id   *)
(* reachable from the chunk and no entry for any other id; run for a chunk  *)
(* without children it leaves the source as it is.                          *)
C14_MappingOfReachable == [] C14_Inv /\ [][C14_Step]_vars

\* the mapping of the diamond's root: 4 is reached twice and entered once
C14_Witness ==
  /\ chunks = Diamond /\ pc = "jsonpScript" /\ ri = 1
  /\ allDepChunkIds = <<2, 4, 3>>
  /\ Occurrences(assets["c1.js"].source, MappingEntry(4)) = 1

\* the chunks whose call of processChunkRecursive has not returned
InProgress == {stack[k].chunk : k \in 1..Len(stack)}

(* C15 (as claimed): when the digest of a chunk P is about to be computed,  *)
(* every child of P has its entry in hashByChunkId.                         *)
C15_ChildrenHashedFirst ==
  AboutToHash =>
    \A child \in Range(chunks[HashingChunk].chunks) : child \in DOMAIN hashByChunkId

(* C15 (amended): when the digest of a chunk P is about to be computed,     *)
(* every child of P that owns an output file and whose own call has         *)
(* returned (it is neither P nor an ancestor of P on a cycle) has its entry *)
(* in hashByChunkId; a chunk without output files never has an entry.       *)
C15_FinishedChildrenHashedFirst ==
  /\ AboutToHash =>
       \A child \in Range(chunks[HashingChunk].chunks) :
         (Len(chunks[child].files) > 0 /\ child \notin InProgress)
         => child \in DOMAIN hashByChunkId
  /\ \A c \in DOMAIN hashByChunkId : Len(chunks[c].files) > 0

\* the root of the diamond is about to be hashed: both children and their
\* shared child have their entries
C15_Witness ==
  /\ AboutToHash /\ chunks = Diamond /\ HashingChunk = 1
  /\ DOMAIN hashByChunkId = {2, 3, 4}

\* the first output files of the chunks the pass has entered
PatchableFiles ==
  {FirstFile(c) : c \in {d \in visitedByChunkId : Len(chunks[d].files) > 0}}

C16_Inv ==
  PassDone =>
    \A f \in DOMAIN assets \ PatchableFiles :
      /\ assets[f].source = oldSources[f]
      /\ assets[f].integrity = computeIntegrity(oldSources[f])

C16_Step ==
  /\ pc = "optimizeAssets" =>
       \A f \in DOMAIN assets :
         assets'[f].source /= assets[f].source
         => (AboutToHash /\ f = FirstFile(HashingChunk) /\ HashingChunk \in visitedByChunkId)
  /\ pc = "callback" => assets' = assets

(* C16: during the optimize-assets handler the content of an asset changes  *)
(* only in the step that patches the first output file of a visited chunk;  *)
(* when the pass is done every other asset (a later output file, a file of  *)
(* a chunk no root reaches, an asset no chunk owns) has the content it had  *)
(* when the handler started and the integrity of that content.              *)
C16_Frame == [] C16_Inv /\ [][C16_Step]_vars

\* a second output file, the file of an unreachable chunk, both with
\* markers, and a static asset are untouched next to a patched first file
C16_Witness ==
  /\ PassDone /\ chunks = Mixed
  /\ assets["c1.js"].source /= oldSources["c1.js"]
  /\ Contains(assets["c1.css"].source, makePlaceholder(3))
  /\ assets["c1.css"].source = oldSources["c1.css"]
  /\ assets["c1.css"].integrity = computeIntegrity(oldSources["c1.css"])
  /\ Contains(assets["c4.js"].source, makePlaceholder(3))
  /\ assets["c4.js"].source = oldSources["c4.js"]
  /\ assets[StaticFile].source = oldSources[StaticFile]

\* chunk c and everything below it had the same content when the passes
\* i and j started
SameSubtreeInput(i, j, c) ==
  \A d \in {c} \cup Reach(chunks, c) :
    Len(chunks[d].files) > 0 => runs[i].old[FirstFile(d)] = runs[j].old[FirstFile(d)]

C17_Inv ==
  /\ PassDone =>
       /\ Roots(chunks) \subseteq visitedByChunkId
       /\ \A c \in Resolvable : c \in DOMAIN hashByChunkId /\ entered[c] = 1
  /\ \A i, j \in 1..Len(runs) :
       /\ DOMAIN runs[i].hashes = DOMAIN runs[j].hashes
       /\ \A c \in DOMAIN runs[i].hashes :
            SameSubtreeInput(i, j, c)
            => /\ runs[i].hashes[c] = runs[j].hashes[c]
               /\ runs[i].assets[FirstFile(c)] = runs[j].assets[FirstFile(c)]
       /\ \A f \in DOMAIN runs[i].old :
            (f \notin PatchableFiles /\ runs[i].old[f] = runs[j].old[f])
            => runs[i].assets[f] = runs[j].assets[f]
       /\ runs[i].old = runs[j].old
            => (runs[i].hashes = runs[j].hashes /\ runs[i].assets = runs[j].assets)

C17_Step ==
  (pc = "render" /\ pc' = "optimizeAssets")
  => (hashByChunkId' = <<>> /\ visitedByChunkId' = {})

(* C17: every invocation of the optimize-assets handler starts with an      *)
(* empty visited set and an empty hashByChunkId, whatever earlier           *)
(* invocations left; every pass enters and hashes each chunk a root reaches *)
(* once more; and two passes of the successive builds give the same digest  *)
(* and the same annotation to every chunk whose content and descendants'    *)
(* content were the same, and the same results altogether for the same      *)
(* content.                                                                 *)
C17_PassesIndependent == [] C17_Inv /\ [][C17_Step]_vars

\* the second build of the chain is done: chunks 2 and 3 had the same
\* content in both passes and got the same digests, with 3's spliced into
\* 2 both times; the root, rendered differently, got another
C17_Witness ==
  /\ pc = "done" /\ chunks = Chain /\ builds = 2 /\ Len(runs) = 2
  /\ Contains(runs[1].old["c2.js"], makePlaceholder(3))
  /\ runs[1].old["c2.js"] = runs[2].old["c2.js"]
  /\ runs[1].hashes[2] = runs[2].hashes[2]
  /\ Contains(runs[2].assets["c2.js"].source, runs[2].hashes[3])
  /\ runs[1].hashes[1] /= runs[2].hashes[1]

(* C18 (as claimed): for every replace() call made, hashByChunkId of the    *)
(* dependency id was defined when the call was made.                        *)
C18_SplicedValuesDefined == \A sp \in splices : sp.defined

(* C19 (as claimed): once the pass is done, a file into which the digest of *)
(* a dependency id was substituted holds no occurrence of that id's marker. *)
C19_NoMarkerLeft ==
  PassDone =>
    \A sp \in splices :
      ~Contains(assets[FirstFile(sp.chunk)].source, makePlaceholder(sp.dep))

\* the events of the current compilation have been handled
CompilationSetUp ==
  pc \in {"render", "localVars", "jsonpScript", "optimizeAssets", "callback",
           "htmlTags", "done", "crashed", "typeError", "digestError"}

\* the entry chunks whose code loads other chunks
LoadingRoots == {r \in Roots(chunks) : Len(chunks[r].chunks) > 0}

(* C20 (as claimed): for every compilation of the compiler, the first and   *)
(* every later one, the main template has the plugin applied exactly once,  *)
(* and once the chunks are rendered the code of every root with children    *)
(* holds one sriHashes mapping and one integrity assignment.                *)
C20_AppliedOncePerCompilation ==
  /\ CompilationSetUp => applied = 1
  /\ (PassDone \/ pc = "optimizeAssets") =>
       \A r \in LoadingRoots :
         /\ Occurrences(assets[FirstFile(r)].source, <<Lit("var sriHashes = {")>>) = 1
         /\ Occurrences(assets[FirstFile(r)].source,
                        <<Lit("script.integrity = sriHashes[chunkId];")>>) = 1
====
